---- MODULE Spec2Model ----
(***************************************************************************)
(* Verification model of marisa-trie: grimoire::trie::Config (flag         *)
(* parsing), grimoire::vector::Vector<T> (growable / mapped vector and its *)
(* serialisation) and the Trie container's content-replacing operations.   *)
(***************************************************************************)
EXTENDS Integers, Sequences, FiniteSets, TLC

VARIABLES
  flags,    \* the config_flags word the caller passes
  config,   \* Config::flags_ of the Config under test
  rhs,      \* Config::flags_ of a second Config (argument of swap)
  v,        \* the Vector<T> under test
  w,        \* a second Vector<T> (swap partner, target of copies)
  ndebug,   \* the build defines NDEBUG (assert() compiled out)
  out,      \* the bytes the Writer has emitted so far
  written,  \* the vectors written, each with the offsets where it begins/ends
  mem,      \* the bytes opened for reading and mapping (the mapped region)
  rpos,     \* Reader: number of bytes consumed
  rvecs,    \* the vectors obtained with Vector::read, in order
  mpos,     \* Mapper: number of bytes consumed
  mvecs,    \* the vectors obtained with Vector::map, in order
  trie,     \* Trie::trie_ of the Trie under test (the LoudsTrie it owns)
  trie2,    \* Trie::trie_ of a second Trie (argument of swap)
  call      \* the last call made and how it ended: [op, arg, err]

cfgvars == <<flags, config, rhs>>
vecvars == <<v, w, ndebug>>
iovars == <<out, written, mem, rpos, rvecs, mpos, mvecs>>
trievars == <<trie, trie2>>
vars ==
  <<flags, config, rhs, v, w, ndebug, out, written, mem, rpos, rvecs, mpos,
    mvecs, trie, trie2, call>>

NoCall == [op |-> "init", arg |-> 0, err |-> "none"]
Call(op, arg, err) == [op |-> op, arg |-> arg, err |-> err]

(***************************************************************************)
(* Machine integers.  config_flags is a 32-bit int, INT_MIN .. INT_MAX.    *)
(* The bitwise operators are those of two's complement: % and \div round   *)
(* towards minus infinity, so a negative word has its sign bit repeated.   *)
(***************************************************************************)
INT_MAX == 2147483647
INT_MIN == -INT_MAX - 1

RECURSIVE BitAnd(_, _)
BitAnd(a, b) ==
  IF a = 0 \/ b = 0 THEN 0
  ELSE IF a = -1 THEN b
  ELSE IF b = -1 THEN a
  ELSE (a % 2) * (b % 2) + 2 * BitAnd(a \div 2, b \div 2)

BitOr(a, b) == a + b - BitAnd(a, b)

BitNot(a) == -a - 1

(***************************************************************************)
(* Configuration constants of marisa/base.h.                               *)
(***************************************************************************)
MARISA_NUM_TRIES_MASK == 127
MARISA_CACHE_LEVEL_MASK == 3968
MARISA_TAIL_MODE_MASK == 61440
MARISA_NODE_ORDER_MASK == 983040
MARISA_CONFIG_MASK == 1048575

MARISA_DEFAULT_NUM_TRIES == 3

MARISA_HUGE_CACHE == 128
MARISA_LARGE_CACHE == 256
MARISA_NORMAL_CACHE == 512
MARISA_SMALL_CACHE == 1024
MARISA_TINY_CACHE == 2048
MARISA_DEFAULT_CACHE == MARISA_NORMAL_CACHE

MARISA_TEXT_TAIL == 4096
MARISA_BINARY_TAIL == 8192
MARISA_DEFAULT_TAIL == MARISA_BINARY_TAIL

MARISA_LABEL_ORDER == 65536
MARISA_WEIGHT_ORDER == 131072
MARISA_DEFAULT_ORDER == MARISA_WEIGHT_ORDER

(***************************************************************************)
(* Config.  A Config is its flags_ word; an operation that may throw       *)
(* yields [flags_, err], flags_ being the word the object is left with.    *)
(***************************************************************************)
Config_default ==
  BitOr(BitOr(MARISA_DEFAULT_NUM_TRIES, MARISA_DEFAULT_CACHE),
        BitOr(MARISA_DEFAULT_TAIL, MARISA_DEFAULT_ORDER))

Returned(flags_) == [flags_ |-> flags_, err |-> "none"]
Thrown(flags_, e) == [flags_ |-> flags_, err |-> e]

parse_num_tries_checked(flags_, config_flags) ==
  LET num_tries == BitAnd(config_flags, MARISA_NUM_TRIES_MASK)
  IN  IF num_tries = 0 \/ num_tries > 7
        THEN Thrown(flags_, "invalid_argument")
        ELSE Returned(flags_)

parse_num_tries(flags_, config_flags) == Returned(flags_)

parse_cache_level_lenient(flags_, config_flags) ==
  IF BitAnd(config_flags, MARISA_CACHE_LEVEL_MASK) = 0
    THEN Returned(BitOr(flags_, MARISA_DEFAULT_CACHE))
    ELSE Returned(flags_)

parse_cache_level(flags_, config_flags) ==
  LET level == BitAnd(config_flags, MARISA_CACHE_LEVEL_MASK)
  IN  CASE level = 0 -> Returned(BitOr(flags_, MARISA_DEFAULT_CACHE))
        [] level = MARISA_HUGE_CACHE -> Returned(flags_)
        [] level = MARISA_LARGE_CACHE -> Returned(flags_)
        [] level = MARISA_NORMAL_CACHE -> Returned(flags_)
        [] level = MARISA_SMALL_CACHE -> Returned(flags_)
        [] level = MARISA_TINY_CACHE -> Returned(flags_)
        [] OTHER -> Thrown(flags_, "invalid_argument")

parse_tail_mode(flags_, config_flags) ==
  LET mode == BitAnd(config_flags, MARISA_TAIL_MODE_MASK)
  IN  CASE mode = 0 -> Returned(BitOr(flags_, MARISA_DEFAULT_TAIL))
        [] mode = MARISA_TEXT_TAIL -> Returned(flags_)
        [] mode = MARISA_BINARY_TAIL -> Returned(flags_)
        [] OTHER -> Thrown(flags_, "invalid_argument")

parse_node_order(flags_, config_flags) ==
  LET order == BitAnd(config_flags, MARISA_NODE_ORDER_MASK)
  IN  CASE order = 0 -> Returned(BitOr(flags_, MARISA_DEFAULT_ORDER))
        [] order = MARISA_LABEL_ORDER -> Returned(flags_)
        [] order = MARISA_WEIGHT_ORDER -> Returned(flags_)
        [] OTHER -> Thrown(flags_, "invalid_argument")

Config_parse(flags_, config_flags) ==
  IF BitAnd(config_flags, BitNot(MARISA_CONFIG_MASK)) # 0
    THEN Thrown(flags_, "invalid_argument")
    ELSE
      LET r1 == parse_num_tries(flags_, config_flags)
          r2 == parse_cache_level(r1.flags_, config_flags)
          r3 == parse_tail_mode(r2.flags_, config_flags)
          r4 == parse_node_order(r3.flags_, config_flags)
      IN  IF r1.err # "none" THEN r1
          ELSE IF r2.err # "none" THEN r2
          ELSE IF r3.err # "none" THEN r3
          ELSE r4

Config_flags(flags_) == flags_
Config_num_tries(flags_) == BitAnd(flags_, MARISA_NUM_TRIES_MASK)
Config_cache_level(flags_) == BitAnd(flags_, MARISA_CACHE_LEVEL_MASK)
Config_tail_mode(flags_) == BitAnd(flags_, MARISA_TAIL_MODE_MASK)
Config_node_order(flags_) == BitAnd(flags_, MARISA_NODE_ORDER_MASK)

(***************************************************************************)
(* Vector<T>.  T is a trivially copyable type of SizeofT bytes; its values *)
(* are the naturals below 256^SizeofT.  SIZE_MAX is scaled down so that    *)
(* max_size() is a capacity the vectors of the model reach.                *)
(*                                                                         *)
(* buf_ is the owned allocation (alloc = FALSE is the null unique_ptr,     *)
(* objs the cells of the allocation); const_objs_ is a pointer: null, the  *)
(* first cell of buf_, or a byte offset into the mapped region.            *)
(***************************************************************************)
SizeofT == 4
SIZE_MAX == 16

NullBuf == [alloc |-> FALSE, objs |-> <<>>]
NewBuf(cells) == [alloc |-> TRUE, objs |-> cells]

NullPtr == [kind |-> "null", off |-> 0]
BufPtr == [kind |-> "buf", off |-> 0]
MapPtr(off) == [kind |-> "map", off |-> off]

Vector_default ==
  [buf_ |-> NullBuf, const_objs_ |-> NullPtr, size_ |-> 0, capacity_ |-> 0]

\* What an access through a null pointer does.
Crash == [crash |-> TRUE, val |-> 0]
Reads(x) == [crash |-> FALSE, val |-> x]

Done(vec) == [v |-> vec, err |-> "none"]
Raise(vec, e) == [v |-> vec, err |-> e]

Min(a, b) == IF a < b THEN a ELSE b
Zeros(n) == [i \in 1 .. n |-> 0]
Fill(n, x) == [i \in 1 .. n |-> x]

Vector_size(vec) == vec.size_
Vector_capacity(vec) == vec.capacity_
Vector_total_size(vec) == SizeofT * vec.size_
Vector_max_size == SIZE_MAX \div SizeofT

Vector_fixed(vec) == vec.buf_ = NullBuf /\ vec.const_objs_ # NullPtr

\* The cells objs() gives access to.  objs() is buf_.get(): with a null
\* buf_ the cells are read through a null pointer, and ub is what such an
\* access does (it crashes, or every cell read appears to hold ub.val).
Vector_objs(vec, n, ub) ==
  IF vec.buf_.alloc THEN SubSeq(vec.buf_.objs, 1, n) ELSE Fill(n, ub.val)

\* nd: the build defines NDEBUG, so assert() is compiled out.  (A copy_n
\* that overruns the new allocation, which only a call past a compiled-out
\* assert() can cause, is kept as the cells it wrote.)
Vector_realloc(vec, new_capacity, nd, ub) ==
  IF ~nd /\ (new_capacity < vec.size_ \/ new_capacity > Vector_max_size)
    THEN Raise(vec, "abort")
  ELSE IF ~vec.buf_.alloc /\ vec.size_ > 0 /\ ub.crash
    THEN Raise(vec, "crash")
  ELSE
    LET copied == Vector_objs(vec, vec.size_, ub)
        new_objs == copied \o Zeros(new_capacity - vec.size_)
    IN  Done([buf_ |-> NewBuf(new_objs), const_objs_ |-> BufPtr,
              size_ |-> vec.size_, capacity_ |-> new_capacity])

Vector_reserve_exact(vec, capacity, nd, ub) ==
  IF ~nd /\ Vector_fixed(vec) THEN Raise(vec, "abort")
  ELSE IF capacity <= vec.capacity_ THEN Done(vec)
  ELSE IF ~nd /\ capacity > Vector_max_size THEN Raise(vec, "abort")
  ELSE Vector_realloc(vec, capacity, nd, ub)

Vector_reserve(vec, capacity, nd, ub) ==
  IF ~nd /\ Vector_fixed(vec) THEN Raise(vec, "abort")
  ELSE IF capacity <= vec.capacity_ THEN Done(vec)
  ELSE IF ~nd /\ capacity > Vector_max_size THEN Raise(vec, "abort")
  ELSE
    LET new_capacity ==
          IF vec.capacity_ > (capacity \div 2)
            THEN IF vec.capacity_ > (Vector_max_size \div 2)
                   THEN Vector_max_size
                   ELSE vec.capacity_ * 2
            ELSE capacity
    IN  Vector_realloc(vec, new_capacity, nd, ub)

Vector_push_back(vec, x, nd, ub) ==
  IF ~nd /\ (Vector_fixed(vec) \/ ~(vec.size_ < Vector_max_size))
    THEN Raise(vec, "abort")
  ELSE
    LET r == Vector_reserve(vec, vec.size_ + 1, nd, ub)
    IN  IF r.err # "none" THEN r
        ELSE Done([r.v EXCEPT !.buf_.objs[vec.size_ + 1] = x,
                              !.size_ = vec.size_ + 1])

Vector_pop_back(vec, nd) ==
  IF ~nd /\ (Vector_fixed(vec) \/ vec.size_ = 0) THEN Raise(vec, "abort")
  ELSE Done([vec EXCEPT !.size_ = (vec.size_ - 1) % (SIZE_MAX + 1)])

\* resize(size): T is trivially default-constructible, so the placement-new
\* of the added elements writes nothing: they hold what realloc's memset or
\* an earlier element left in the cells.
Vector_resize(vec, size, nd, ub) ==
  IF ~nd /\ Vector_fixed(vec) THEN Raise(vec, "abort")
  ELSE
    LET r == Vector_reserve(vec, size, nd, ub)
    IN  IF r.err # "none" THEN r
        ELSE Done([r.v EXCEPT !.size_ = size])

Vector_resize_fill(vec, size, x, nd, ub) ==
  IF ~nd /\ Vector_fixed(vec) THEN Raise(vec, "abort")
  ELSE
    LET r == Vector_reserve(vec, size, nd, ub)
        filled == [i \in 1 .. Len(r.v.buf_.objs) |->
                     IF i > vec.size_ /\ i <= size THEN x
                     ELSE r.v.buf_.objs[i]]
    IN  IF r.err # "none" THEN r
        ELSE Done([r.v EXCEPT !.buf_.objs = filled, !.size_ = size])

Vector_shrink_unguarded(vec, nd, ub) ==
  IF vec.size_ # vec.capacity_
    THEN Vector_realloc(vec, vec.size_, nd, ub)
    ELSE Done(vec)

Vector_shrink(vec, nd, ub) ==
  IF Vector_fixed(vec) THEN Raise(vec, "logic_error")
  ELSE IF vec.size_ # vec.capacity_
    THEN Vector_realloc(vec, vec.size_, nd, ub)
    ELSE Done(vec)

Vector_clear(vec) == Vector_default

\* objs()[i] = x through the non-const operator[]; with a null buf_ this
\* is a store through a null pointer (it crashes, or goes unnoticed).
Vector_store(vec, i, x, nd, ub) ==
  IF ~nd /\ (Vector_fixed(vec) \/ ~(i < vec.size_)) THEN Raise(vec, "abort")
  ELSE IF ~vec.buf_.alloc
    THEN IF ub.crash THEN Raise(vec, "crash") ELSE Done(vec)
  ELSE Done([vec EXCEPT !.buf_.objs[i + 1] = x])

\* copyInit: copy_n(src, size, new_objs), then memset from &new_objs[size_],
\* size_ being this vector's own (still zero) size.
Vector_copyInit(vec, src, size, capacity) ==
  LET copied == SubSeq(src, 1, size) \o Zeros(capacity - size)
      new_objs == SubSeq(copied, 1, vec.size_) \o Zeros(capacity - vec.size_)
  IN  [buf_ |-> NewBuf(new_objs), const_objs_ |-> BufPtr,
       size_ |-> size, capacity_ |-> capacity]

Vector_copy(other) ==
  IF other.buf_ = NullBuf
    THEN [buf_ |-> NullBuf, const_objs_ |-> other.const_objs_,
          size_ |-> other.size_, capacity_ |-> other.capacity_]
    ELSE Vector_copyInit(Vector_default, other.buf_.objs,
                         other.size_, other.capacity_)

Vector_assign(vec, other) ==
  LET cleared == Vector_clear(vec)
  IN  IF other.buf_ = NullBuf
        THEN [cleared EXCEPT !.const_objs_ = other.const_objs_,
                             !.size_ = other.size_,
                             !.capacity_ = other.capacity_]
        ELSE Vector_copyInit(cleared, other.buf_.objs,
                             other.size_, other.capacity_)

(***************************************************************************)
(* Serialisation.  A byte is a natural below 256; objects are written as   *)
(* their little-endian bytes.  Writer, Reader and Mapper (marisa/grimoire/ *)
(* io) are streams of bytes: Writer::seek emits zero bytes, Reader::seek   *)
(* and Mapper::seek skip bytes, and reading or mapping past the end of the *)
(* data fails with an I/O error.                                           *)
(***************************************************************************)
RECURSIVE Pow256(_)
Pow256(n) == IF n = 0 THEN 1 ELSE 256 * Pow256(n - 1)

EncodeLE(x, n) == [i \in 1 .. n |-> (x \div Pow256(i - 1)) % 256]

RECURSIVE DecodeLE(_)
DecodeLE(bytes) ==
  IF bytes = <<>> THEN 0 ELSE Head(bytes) + 256 * DecodeLE(Tail(bytes))

\* uint64_t values are kept exactly up to INT_MAX; a larger one is held as
\* INT_MAX (the code only compares it with SIZE_MAX).
EncodeU64(x) == EncodeLE(x, 4) \o Zeros(4)
DecodeU64(bytes) ==
  IF SubSeq(bytes, 5, 8) = Zeros(4) /\ bytes[4] < 128
    THEN DecodeLE(SubSeq(bytes, 1, 4))
    ELSE INT_MAX

RECURSIVE EncodeObjs(_)
EncodeObjs(cells) ==
  IF cells = <<>> THEN <<>>
  ELSE EncodeLE(Head(cells), SizeofT) \o EncodeObjs(Tail(cells))

DecodeObjs(bytes, n) ==
  [i \in 1 .. n |->
     DecodeLE(SubSeq(bytes, (i - 1) * SizeofT + 1, i * SizeofT))]

Writer_write_u64(bytes, x) == bytes \o EncodeU64(x)
Writer_write_objs(bytes, cells) == bytes \o EncodeObjs(cells)
Writer_seek(bytes, n) == bytes \o Zeros(n)

Reader_avail(data, pos, n) == pos + n <= Len(data)
Reader_bytes(data, pos, n) == SubSeq(data, pos + 1, pos + n)

\* const operator[]: the element const_objs_[i], read from the owned
\* buffer or from the mapped region.
Vector_at(vec, i, region) ==
  IF vec.const_objs_.kind = "map"
    THEN DecodeLE(Reader_bytes(region, vec.const_objs_.off + i * SizeofT,
                               SizeofT))
    ELSE vec.buf_.objs[i + 1]

Vector_elems(vec, region) ==
  [i \in 1 .. vec.size_ |-> Vector_at(vec, i - 1, region)]

\* io_size: sizeof(uint64_t) + ((total_size() + 7) & ~0x07U).  (The mask is
\* an unsigned int; the sizes of the model are far below 2^32, where it
\* clears the three low bits and nothing else.)
Vector_io_size(vec) ==
  8 + BitAnd(Vector_total_size(vec) + 7, BitNot(7))

Vector_write_padding(total_size) == 8 - (total_size % 8)

Vector_write(vec, bytes, region) ==
  LET b1 == Writer_write_u64(bytes, Vector_total_size(vec))
      b2 == Writer_write_objs(b1, Vector_elems(vec, region))
  IN  Writer_seek(b2, Vector_write_padding(Vector_total_size(vec)))

IOResult(vec, pos, err) == [v |-> vec, pos |-> pos, err |-> err]

Vector_read_padding_mod8(total_size) == (8 - (total_size % 8)) % 8
Vector_read_padding(total_size) == 8 - (total_size % 8)

\* Vector(Reader &): the vector constructed from the bytes at pos, and the
\* position the reader is left at.
Vector_from_reader(data, pos, nd) ==
  IF ~Reader_avail(data, pos, 8)
    THEN IOResult(Vector_default, pos, "io_error")
  ELSE
    LET total_size == DecodeU64(Reader_bytes(data, pos, 8))
        size == total_size \div SizeofT
        p1 == pos + 8
        p2 == p1 + SizeofT * size
        p3 == p2 + Vector_read_padding(total_size)
        r == Vector_resize(Vector_default, size, nd, Crash)
        cells == DecodeObjs(Reader_bytes(data, p1, SizeofT * size), size)
    IN  IF total_size > SIZE_MAX
          THEN IOResult(Vector_default, p1, "runtime_error")
        ELSE IF (total_size % SizeofT) # 0
          THEN IOResult(Vector_default, p1, "runtime_error")
        ELSE IF r.err # "none" THEN IOResult(r.v, p1, r.err)
        ELSE IF ~Reader_avail(data, p1, SizeofT * size)
          THEN IOResult(r.v, p1, "io_error")
        ELSE IF ~Reader_avail(data, p2, Vector_read_padding(total_size))
          THEN IOResult(r.v, p2, "io_error")
        ELSE IOResult(IF size = 0 THEN r.v
                      ELSE [r.v EXCEPT !.buf_.objs = cells], p3, "none")

Vector_map_padding_mod8(total_size) == (8 - (total_size % 8)) % 8
Vector_map_padding(total_size) == 8 - (total_size % 8)

\* Vector(Mapper &): const_objs_ points into the mapped bytes.
Vector_from_mapper(data, pos) ==
  IF ~Reader_avail(data, pos, 8)
    THEN IOResult(Vector_default, pos, "io_error")
  ELSE
    LET total_size == DecodeU64(Reader_bytes(data, pos, 8))
        size == total_size \div SizeofT
        p1 == pos + 8
        p2 == p1 + SizeofT * size
        p3 == p2 + Vector_map_padding(total_size)
    IN  IF total_size > SIZE_MAX
          THEN IOResult(Vector_default, p1, "runtime_error")
        ELSE IF (total_size % SizeofT) # 0
          THEN IOResult(Vector_default, p1, "runtime_error")
        ELSE IF ~Reader_avail(data, p1, SizeofT * size)
          THEN IOResult(Vector_default, p1, "io_error")
        ELSE IF ~Reader_avail(data, p2, Vector_map_padding(total_size))
          THEN IOResult([Vector_default EXCEPT !.const_objs_ = MapPtr(p1)],
                        p2, "io_error")
        ELSE IOResult([Vector_default EXCEPT !.const_objs_ = MapPtr(p1),
                                             !.size_ = size], p3, "none")

\* read / map: the temporary is swapped in only when its constructor
\* returned.
Vector_read(vec, data, pos, nd) ==
  LET temp == Vector_from_reader(data, pos, nd)
  IN  IF temp.err # "none" THEN IOResult(vec, temp.pos, temp.err) ELSE temp

Vector_map(vec, data, pos) ==
  LET temp == Vector_from_mapper(data, pos)
  IN  IF temp.err # "none" THEN IOResult(vec, temp.pos, temp.err) ELSE temp

LoudsTrie_empty == [src |-> "empty", from |-> 0, flags |-> 0]

IOIdle ==
  /\ trie = LoudsTrie_empty
  /\ trie2 = LoudsTrie_empty
  /\ out = <<>>
  /\ written = <<>>
  /\ mem = <<>>
  /\ rpos = 0
  /\ rvecs = <<>>
  /\ mpos = 0
  /\ mvecs = <<>>

(***************************************************************************)
(* Flag words handed to parse: every num_tries field 0 .. MaxNumTries,     *)
(* every cache level / tail mode / node order alone, absent, or combined   *)
(* with another one, and bits outside MARISA_CONFIG_MASK (among them the   *)
(* sign bit of a negative int).                                            *)
(***************************************************************************)
MaxNumTries == 9

CacheInputs ==
  {0, MARISA_HUGE_CACHE, MARISA_LARGE_CACHE, MARISA_NORMAL_CACHE,
   MARISA_SMALL_CACHE, MARISA_TINY_CACHE,
   MARISA_HUGE_CACHE + MARISA_LARGE_CACHE}

TailInputs ==
  {0, MARISA_TEXT_TAIL, MARISA_BINARY_TAIL,
   MARISA_TEXT_TAIL + MARISA_BINARY_TAIL}

OrderInputs ==
  {0, MARISA_LABEL_ORDER, MARISA_WEIGHT_ORDER,
   MARISA_LABEL_ORDER + MARISA_WEIGHT_ORDER}

ExtraInputs == {0, MARISA_CONFIG_MASK + 1, INT_MIN}

FlagInputs ==
  {n + c + t + o + x : n \in 0 .. MaxNumTries, c \in CacheInputs,
                       t \in TailInputs, o \in OrderInputs, x \in ExtraInputs}

(***************************************************************************)
(* Operations on Config objects.  The caller's flags word is drawn once,   *)
(* from FlagInputs; parse is then applied to either Config.                *)
(***************************************************************************)
ConfigInit ==
  /\ flags \in FlagInputs
  /\ config = Config_default
  /\ rhs = Config_default
  /\ v = Vector_default
  /\ w = Vector_default
  /\ ndebug = FALSE
  /\ IOIdle
  /\ call = NoCall

ConfigParse ==
  LET r == Config_parse(config, flags)
  IN  /\ config' = r.flags_
      /\ call' = Call("parse", 0, r.err)
      /\ UNCHANGED <<trievars, flags, rhs, vecvars, iovars>>

ConfigParseRhs ==
  LET r == Config_parse(rhs, flags)
  IN  /\ rhs' = r.flags_
      /\ call' = Call("parse_rhs", 0, r.err)
      /\ UNCHANGED <<trievars, flags, config, vecvars, iovars>>

ConfigClear ==
  /\ config' = Config_default
  /\ call' = Call("clear", 0, "none")
  /\ UNCHANGED <<trievars, flags, rhs, vecvars, iovars>>

ConfigSwap ==
  /\ config' = rhs
  /\ rhs' = config
  /\ call' = Call("swap", 0, "none")
  /\ UNCHANGED <<trievars, flags, vecvars, iovars>>

ConfigNext == ConfigParse \/ ConfigParseRhs \/ ConfigClear \/ ConfigSwap

SpecConfig == ConfigInit /\ [][ConfigNext]_vars

(***************************************************************************)
(* Properties of Config.                                                   *)
(***************************************************************************)
Field(word, mask) == BitAnd(word, mask)

Selected(field, default) == IF field # 0 THEN field ELSE default

InsideMask(word) == BitAnd(word, BitNot(MARISA_CONFIG_MASK)) = 0

RecognisedFields(word) ==
  /\ Field(word, MARISA_CACHE_LEVEL_MASK) \in
       {0, MARISA_HUGE_CACHE, MARISA_LARGE_CACHE, MARISA_NORMAL_CACHE,
        MARISA_SMALL_CACHE, MARISA_TINY_CACHE}
  /\ Field(word, MARISA_TAIL_MODE_MASK) \in
       {0, MARISA_TEXT_TAIL, MARISA_BINARY_TAIL}
  /\ Field(word, MARISA_NODE_ORDER_MASK) \in
       {0, MARISA_LABEL_ORDER, MARISA_WEIGHT_ORDER}

\* C2: after a successful parse(flags), num_tries(), cache_level(),
\* tail_mode() and node_order() each equal the field of flags when it is
\* non-zero and the documented default when it is zero.
C2_AccessorsReflectFlags ==
  (call.op = "parse" /\ call.err = "none") =>
    /\ Config_num_tries(config) =
         Selected(Field(flags, MARISA_NUM_TRIES_MASK), MARISA_DEFAULT_NUM_TRIES)
    /\ Config_cache_level(config) =
         Selected(Field(flags, MARISA_CACHE_LEVEL_MASK), MARISA_DEFAULT_CACHE)
    /\ Config_tail_mode(config) =
         Selected(Field(flags, MARISA_TAIL_MODE_MASK), MARISA_DEFAULT_TAIL)
    /\ Config_node_order(config) =
         Selected(Field(flags, MARISA_NODE_ORDER_MASK), MARISA_DEFAULT_ORDER)

C8_InvalidFlagsRejected ==
  [][ call'.op = "parse" =>
        /\ call'.err \in {"none", "invalid_argument"}
        /\ call'.err = "invalid_argument"
             <=> ~(InsideMask(flags) /\ RecognisedFields(flags))
        /\ call'.err # "none" => Config_flags(config') = Config_flags(config)
    ]_vars

C8_Witness ==
  /\ call.op = "parse"
  /\ call.err = "invalid_argument"
  /\ InsideMask(flags)
  /\ Field(flags, MARISA_CACHE_LEVEL_MASK) = MARISA_HUGE_CACHE + MARISA_LARGE_CACHE
  /\ Field(flags, MARISA_TAIL_MODE_MASK) = 0

(***************************************************************************)
(* Operations on vectors.  The program ends at a failed assert() or at a   *)
(* crash.  A call on a mapped vector that gets past the assert() reads     *)
(* through the null objs(): NullReads is what that can do.                 *)
(***************************************************************************)
TValues == {0, 258}

Running == call.err \notin {"abort", "crash"}

NullReads(vec) ==
  IF vec.buf_.alloc \/ vec.size_ = 0 THEN {Crash}
  ELSE {Crash} \cup {Reads(x) : x \in TValues}

VecReturn(op, arg, r) ==
  /\ v' = r.v
  /\ call' = Call(op, arg, r.err)
  /\ UNCHANGED <<trievars, cfgvars, w, ndebug, iovars>>

VecPushBack ==
  /\ Running
  /\ v.size_ < Vector_max_size
  /\ \E x \in TValues, ub \in NullReads(v) :
       VecReturn("push_back", 0, Vector_push_back(v, x, ndebug, ub))

VecPopBack ==
  /\ Running
  /\ v.size_ # 0
  /\ VecReturn("pop_back", 0, Vector_pop_back(v, ndebug))

VecResize ==
  /\ Running
  /\ \E size \in 0 .. Vector_max_size, ub \in NullReads(v) :
       VecReturn("resize", 0, Vector_resize(v, size, ndebug, ub))

VecResizeFill ==
  /\ Running
  /\ \E size \in 0 .. Vector_max_size, x \in TValues, ub \in NullReads(v) :
       VecReturn("resize_fill", 0,
                 Vector_resize_fill(v, size, x, ndebug, ub))

VecReserve ==
  /\ Running
  /\ \E capacity \in 0 .. Vector_max_size, ub \in NullReads(v) :
       VecReturn("reserve", capacity,
                 Vector_reserve(v, capacity, ndebug, ub))

VecShrink ==
  /\ Running
  /\ \E ub \in NullReads(v) :
       VecReturn("shrink", 0, Vector_shrink(v, ndebug, ub))

VecClear ==
  /\ Running
  /\ VecReturn("clear", 0, Done(Vector_clear(v)))

VecCopyConstruct ==
  /\ Running
  /\ w' = Vector_copy(v)
  /\ call' = Call("copy_construct", 0, "none")
  /\ UNCHANGED <<trievars, cfgvars, v, ndebug, iovars>>

VecCopyAssign ==
  /\ Running
  /\ w' = Vector_assign(w, v)
  /\ call' = Call("copy_assign", 0, "none")
  /\ UNCHANGED <<trievars, cfgvars, v, ndebug, iovars>>

(***************************************************************************)
(* Owned vectors: every vector starts default-constructed, and each call   *)
(* respects the preconditions the code asserts (pop_back on a non-empty    *)
(* vector, sizes and capacities up to max_size()).                         *)
(***************************************************************************)
VectorInit ==
  /\ flags = 0
  /\ config = Config_default
  /\ rhs = Config_default
  /\ v = Vector_default
  /\ w = Vector_default
  /\ ndebug \in BOOLEAN
  /\ IOIdle
  /\ call = NoCall

VecSwap ==
  /\ v' = w
  /\ w' = v
  /\ call' = Call("swap", 0, "none")
  /\ UNCHANGED <<trievars, cfgvars, ndebug, iovars>>

VectorNext ==
  \/ VecPushBack \/ VecPopBack \/ VecResize \/ VecResizeFill
  \/ VecReserve \/ VecShrink \/ VecClear \/ VecSwap
  \/ VecCopyConstruct \/ VecCopyAssign

SpecVector == VectorInit /\ [][VectorNext]_vars

(***************************************************************************)
(* Properties of owned vectors.                                            *)
(***************************************************************************)
Owned(vec) ==
  /\ ~Vector_fixed(vec)
  /\ Vector_size(vec) <= Vector_capacity(vec)
  /\ Vector_capacity(vec) <= Vector_max_size

\* C9: a copy-constructed or copy-assigned vector has the size, the
\* capacity and, at every index below size, the element of its source,
\* when the source owns its buffer and holds at least one element.
C9_CopyPreservesContents ==
  (call.op \in {"copy_construct", "copy_assign"}
     /\ v.buf_.alloc /\ Vector_size(v) >= 1) =>
    /\ Vector_size(w) = Vector_size(v)
    /\ Vector_capacity(w) = Vector_capacity(v)
    /\ Vector_elems(w, mem) = Vector_elems(v, mem)

\* C10: every vector reached from a default-constructed one by push_back,
\* pop_back, resize, reserve, shrink, clear and swap is not fixed and has
\* size <= capacity <= max_size; reserve(c) and shrink() keep the size and
\* the elements; after reserve(c) the capacity is at least c, and at least
\* twice the old capacity (capped at max_size) when the vector had to grow
\* to a c below twice the old capacity; after shrink() capacity = size.
C10_OwnedVectorInvariant ==
  [][ /\ Owned(v) /\ Owned(w) /\ Owned(v') /\ Owned(w')
      /\ call'.op \in {"reserve", "shrink"} =>
           /\ call'.err = "none"
           /\ Vector_size(v') = Vector_size(v)
           /\ Vector_elems(v', mem) = Vector_elems(v, mem)
      /\ call'.op = "reserve" =>
           /\ Vector_capacity(v') >= call'.arg
           /\ (call'.arg > Vector_capacity(v)
                 /\ call'.arg < 2 * Vector_capacity(v)) =>
                Vector_capacity(v') >=
                  Min(2 * Vector_capacity(v), Vector_max_size)
      /\ call'.op = "shrink" => Vector_capacity(v') = Vector_size(v')
    ]_vars

C10_Witness ==
  /\ call.op = "reserve"
  /\ call.arg = 3
  /\ Vector_capacity(v) = 4
  /\ Vector_size(v) = 2
  /\ Vector_elems(v, mem) = <<258, 258>>

(***************************************************************************)
(* Writing vectors to a Writer, then reading and mapping the bytes.        *)
(* The vectors written hold up to MaxLen elements; up to MaxVecs vectors   *)
(* are written back to back.                                               *)
(***************************************************************************)
MaxLen == 2
MaxVecs == 2

CellSeqs == UNION {[1 .. n -> TValues] : n \in 0 .. MaxLen}

\* The vector a program gets by push_back of the cells, one by one.
RECURSIVE VectorOf(_)
VectorOf(cells) ==
  IF cells = <<>> THEN Vector_default
  ELSE Vector_push_back(VectorOf(SubSeq(cells, 1, Len(cells) - 1)),
                        cells[Len(cells)], FALSE, Crash).v

IOInit ==
  /\ flags = 0
  /\ config = Config_default
  /\ rhs = Config_default
  /\ v = Vector_default
  /\ w = Vector_default
  /\ ndebug \in BOOLEAN
  /\ IOIdle
  /\ call = NoCall

IOWrite ==
  /\ mem = <<>>
  /\ Len(written) < MaxVecs
  /\ \E cells \in CellSeqs :
       LET vec == VectorOf(cells)
           bytes == Vector_write(vec, out, mem)
       IN  /\ v' = vec
           /\ out' = bytes
           /\ written' = Append(written, [vec |-> vec, begin |-> Len(out),
                                          end |-> Len(bytes)])
           /\ call' = Call("write", Len(cells), "none")
  /\ UNCHANGED <<trievars, cfgvars, w, ndebug, mem, rpos, rvecs, mpos, mvecs>>

\* The file is closed, then opened by a Reader and a Mapper.
IOOpen ==
  /\ mem = <<>>
  /\ written # <<>>
  /\ mem' = out
  /\ call' = Call("open", 0, "none")
  /\ UNCHANGED <<trievars, cfgvars, vecvars, out, written, rpos, rvecs, mpos, mvecs>>

IORead ==
  /\ mem # <<>>
  /\ LET r == Vector_read(Vector_default, mem, rpos, ndebug)
     IN  /\ rpos' = r.pos
         /\ rvecs' = IF r.err = "none" THEN Append(rvecs, r.v) ELSE rvecs
         /\ call' = Call("read", 0, r.err)
  /\ UNCHANGED <<trievars, cfgvars, vecvars, out, written, mem, mpos, mvecs>>

IOMap ==
  /\ mem # <<>>
  /\ LET r == Vector_map(Vector_default, mem, mpos)
     IN  /\ mpos' = r.pos
         /\ mvecs' = IF r.err = "none" THEN Append(mvecs, r.v) ELSE mvecs
         /\ call' = Call("map", 0, r.err)
  /\ UNCHANGED <<trievars, cfgvars, vecvars, out, written, mem, rpos, rvecs>>

IONext == IOWrite \/ IOOpen \/ IORead \/ IOMap

SpecIO == IOInit /\ [][IONext]_vars

(***************************************************************************)
(* Properties of the serialisation.                                        *)
(***************************************************************************)
\* C4: for every vector, io_size() is the number of bytes write emits for
\* it, and that number is a multiple of 8.
C4_IoSizeIsBytesWritten ==
  \A i \in 1 .. Len(written) :
    /\ written[i].end - written[i].begin = Vector_io_size(written[i].vec)
    /\ (written[i].end - written[i].begin) % 8 = 0

\* C5: the k-th vector read has the size and the elements of the k-th
\* vector written, and after k reads the reader has consumed exactly the
\* bytes the first k writes produced.
C5_WriteReadRoundTrip ==
  /\ Len(rvecs) <= Len(written)
  /\ \A i \in 1 .. Len(rvecs) :
       /\ Vector_size(rvecs[i]) = Vector_size(written[i].vec)
       /\ Vector_elems(rvecs[i], mem) = Vector_elems(written[i].vec, mem)
  /\ rpos = IF rvecs = <<>> THEN 0 ELSE written[Len(rvecs)].end

C5_Witness ==
  /\ Len(rvecs) = 2
  /\ Vector_elems(rvecs[1], mem) = <<258, 0>>
  /\ Vector_elems(rvecs[2], mem) = <<258>>
  /\ rpos = Len(mem)

\* C6: from the same bytes map and read give vectors of equal size and
\* equal elements and advance by the same number of bytes; the mapped
\* vector has a null buf_ and is fixed, the read one is not fixed and owns
\* its elements.
C6_MapReadEquivalence ==
  /\ \A i \in 1 .. Min(Len(rvecs), Len(mvecs)) :
       /\ Vector_size(mvecs[i]) = Vector_size(rvecs[i])
       /\ Vector_elems(mvecs[i], mem) = Vector_elems(rvecs[i], mem)
  /\ Len(rvecs) = Len(mvecs) => rpos = mpos
  /\ \A i \in 1 .. Len(mvecs) :
       mvecs[i].buf_ = NullBuf /\ Vector_fixed(mvecs[i])
  /\ \A i \in 1 .. Len(rvecs) :
       /\ ~Vector_fixed(rvecs[i])
       /\ Vector_size(rvecs[i]) > 0 => rvecs[i].buf_.alloc

C6_Witness ==
  /\ Len(rvecs) = 2 /\ Len(mvecs) = 2
  /\ Vector_elems(mvecs[1], mem) = <<>>
  /\ Vector_elems(mvecs[2], mem) = <<0, 258>>
  /\ mpos = Len(mem)

(***************************************************************************)
(* A vector constructed from a Mapper over the bytes of one written        *)
(* vector, and every mutating operation applied to it.  Here a call may    *)
(* break the precondition !fixed().                                        *)
(***************************************************************************)
Images == {Vector_write(VectorOf(cells), <<>>, <<>>) : cells \in CellSeqs}

MappedInit ==
  /\ flags = 0
  /\ config = Config_default
  /\ rhs = Config_default
  /\ mem \in Images
  /\ v = Vector_from_mapper(mem, 0).v
  /\ w = Vector_default
  /\ ndebug \in BOOLEAN
  /\ trie = LoudsTrie_empty
  /\ trie2 = LoudsTrie_empty
  /\ out = <<>>
  /\ written = <<>>
  /\ rpos = 0
  /\ rvecs = <<>>
  /\ mpos = 0
  /\ mvecs = <<>>
  /\ call = NoCall

\* The operations above, applied while v is mapped.
MappedPushBack == Vector_fixed(v) /\ VecPushBack
MappedPopBack == Vector_fixed(v) /\ VecPopBack
MappedResize == Vector_fixed(v) /\ VecResize
MappedResizeFill == Vector_fixed(v) /\ VecResizeFill
MappedReserve == Vector_fixed(v) /\ VecReserve
MappedShrink == Vector_fixed(v) /\ VecShrink
MappedClear == Vector_fixed(v) /\ VecClear
MappedCopyConstruct == Vector_fixed(v) /\ VecCopyConstruct
MappedCopyAssign == Vector_fixed(v) /\ VecCopyAssign

\* v.map(mapper), the mapper being at the start of the region.
MappedMap ==
  /\ Running
  /\ LET r == Vector_map(v, mem, 0)
     IN  /\ v' = r.v
         /\ call' = Call("map", 0, r.err)
  /\ UNCHANGED <<trievars, cfgvars, w, ndebug, iovars>>

\* v[i] = x through the non-const operator[].
MappedStore ==
  /\ Running
  /\ Vector_fixed(v)
  /\ \E i \in 0 .. Vector_max_size - 1, x \in TValues,
        ub \in {Crash, Reads(0)} :
       /\ i < v.size_
       /\ VecReturn("store", 0, Vector_store(v, i, x, ndebug, ub))

MappedNext ==
  \/ MappedPushBack \/ MappedPopBack \/ MappedResize \/ MappedResizeFill
  \/ MappedReserve \/ MappedShrink \/ MappedClear
  \/ MappedCopyConstruct \/ MappedCopyAssign \/ MappedMap \/ MappedStore

SpecMapped == MappedInit /\ [][MappedNext]_vars

(***************************************************************************)
(* Properties of mapped vectors.                                           *)
(***************************************************************************)
MutatingOps ==
  {"push_back", "pop_back", "resize", "resize_fill", "reserve", "shrink",
   "store"}

Kept(trie_, e) == [trie_ |-> trie_, err |-> e]
Swapped(temp) == [trie_ |-> temp, err |-> "none"]

\* LoudsTrie(keyset, flags): parses the flags, then builds.
LoudsTrie_build(keyset, config_flags) ==
  LET c == Config_parse(Config_default, config_flags)
  IN  IF c.err # "none" THEN [v |-> LoudsTrie_empty, err |-> c.err]
      ELSE IF keyset.err # "none"
        THEN [v |-> [src |-> "partial", from |-> keyset.id,
                     flags |-> config_flags], err |-> keyset.err]
      ELSE [v |-> [src |-> "build", from |-> keyset.id,
                   flags |-> config_flags], err |-> "none"]

\* temp->read(reader) / temp->map(mapper) on the freshly made LoudsTrie.
LoudsTrie_load(temp, how, source) ==
  IF source.content # "none"
    THEN [v |-> [src |-> "partial", from |-> source.id, flags |-> 0],
          err |-> source.content]
    ELSE [v |-> [src |-> how, from |-> source.id, flags |-> 0],
          err |-> "none"]

Trie_build_in_place(trie_, keyset, config_flags) ==
  LET temp == LoudsTrie_build(keyset, config_flags)
  IN  Kept(temp.v, temp.err)

Trie_build(trie_, keyset, config_flags) ==
  LET temp == LoudsTrie_build(keyset, config_flags)
  IN  IF temp.err # "none" THEN Kept(trie_, temp.err)
      ELSE Swapped(temp.v)

\* Each of the operations below makes temp, opens the source, reads or
\* maps into temp, and swaps temp with trie_ as its last statement.
TrieIO_fread(trie_, trie_is_null, file) ==
  IF trie_is_null THEN Kept(trie_, "invalid_argument")
  ELSE
    LET temp == LoudsTrie_load(LoudsTrie_empty, "read", file)
    IN  IF file.open # "none" THEN Kept(trie_, file.open)
        ELSE IF temp.err # "none" THEN Kept(trie_, temp.err)
        ELSE Swapped(temp.v)

fread(trie_, trie_is_null, file) ==
  IF file.null THEN Kept(trie_, "invalid_argument")
  ELSE IF trie_is_null THEN Kept(trie_, "invalid_argument")
  ELSE TrieIO_fread(trie_, trie_is_null, file)

TrieIO_read(trie_, trie_is_null, stream) ==
  IF trie_is_null THEN Kept(trie_, "invalid_argument")
  ELSE
    LET temp == LoudsTrie_load(LoudsTrie_empty, "read", stream)
    IN  IF stream.open # "none" THEN Kept(trie_, stream.open)
        ELSE IF temp.err # "none" THEN Kept(trie_, temp.err)
        ELSE Swapped(temp.v)

read(trie_, trie_is_null, stream) ==
  IF trie_is_null THEN Kept(trie_, "invalid_argument")
  ELSE TrieIO_read(trie_, trie_is_null, stream)

TrieSerializer_mmap(trie_, filename) ==
  IF filename.null THEN Kept(trie_, "invalid_argument")
  ELSE
    LET temp == LoudsTrie_load(LoudsTrie_empty, "map", filename)
    IN  IF filename.open # "none" THEN Kept(trie_, filename.open)
        ELSE IF temp.err # "none" THEN Kept(trie_, temp.err)
        ELSE Swapped(temp.v)

\* map(ptr, size): size is the size of the block, 0 for the empty block.
TrieSerializer_map(trie_, block, size) ==
  IF block.null /\ size # 0 THEN Kept(trie_, "invalid_argument")
  ELSE
    LET temp == LoudsTrie_load(LoudsTrie_empty, "map", block)
    IN  IF block.open # "none" THEN Kept(trie_, block.open)
        ELSE IF temp.err # "none" THEN Kept(trie_, temp.err)
        ELSE Swapped(temp.v)

TrieSerializer_load(trie_, filename) ==
  IF filename.null THEN Kept(trie_, "invalid_argument")
  ELSE
    LET temp == LoudsTrie_load(LoudsTrie_empty, "read", filename)
    IN  IF filename.open # "none" THEN Kept(trie_, filename.open)
        ELSE IF temp.err # "none" THEN Kept(trie_, temp.err)
        ELSE Swapped(temp.v)

TrieSerializer_read(trie_, fd) ==
  IF fd.null THEN Kept(trie_, "invalid_argument")
  ELSE
    LET temp == LoudsTrie_load(LoudsTrie_empty, "read", fd)
    IN  IF fd.open # "none" THEN Kept(trie_, fd.open)
        ELSE IF temp.err # "none" THEN Kept(trie_, temp.err)
        ELSE Swapped(temp.v)

Trie_clear(trie_) == LoudsTrie_empty

(***************************************************************************)
(* Operations on a Trie.                                                   *)
(***************************************************************************)
Keysets ==
  {[id |-> 1, err |-> "none"], [id |-> 2, err |-> "none"],
   [id |-> 3, err |-> "invalid_argument"], [id |-> 4, err |-> "bad_alloc"]}

BuildFlags ==
  {0, 1 + MARISA_LABEL_ORDER, MARISA_TEXT_TAIL + MARISA_BINARY_TAIL,
   MARISA_CONFIG_MASK + 1}

Sources ==
  {[id |-> 1, null |-> FALSE, open |-> "none", content |-> "none"],
   [id |-> 2, null |-> FALSE, open |-> "none", content |-> "none"],
   [id |-> 3, null |-> FALSE, open |-> "io_error", content |-> "none"],
   [id |-> 4, null |-> FALSE, open |-> "none", content |-> "runtime_error"],
   [id |-> 5, null |-> FALSE, open |-> "none", content |-> "io_error"],
   [id |-> 6, null |-> TRUE, open |-> "io_error", content |-> "io_error"]}

\* A null block of size 0 is an empty block: it opens, and holds no trie.
EmptyBlock ==
  [id |-> 7, null |-> TRUE, open |-> "none", content |-> "io_error"]

TrieInit ==
  /\ flags = 0
  /\ config = Config_default
  /\ rhs = Config_default
  /\ v = Vector_default
  /\ w = Vector_default
  /\ ndebug = FALSE
  /\ IOIdle
  /\ call = NoCall

TrieFrame ==
  UNCHANGED <<trie2, cfgvars, vecvars, out, written, mem, rpos, rvecs,
              mpos, mvecs>>

TrieBuild ==
  \E keyset \in Keysets, f \in BuildFlags :
    LET r == Trie_build(trie, keyset, f)
    IN  /\ trie' = r.trie_
        /\ call' = Call("build", keyset.id, r.err)
        /\ TrieFrame

TrieFread ==
  \E file \in Sources, trie_is_null \in BOOLEAN :
    LET r == fread(trie, trie_is_null, file)
    IN  /\ trie' = r.trie_
        /\ call' = Call("fread", file.id, r.err)
        /\ TrieFrame

TrieReadStream ==
  \E stream \in {s \in Sources : ~s.null}, trie_is_null \in BOOLEAN :
    LET r == read(trie, trie_is_null, stream)
    IN  /\ trie' = r.trie_
        /\ call' = Call("read", stream.id, r.err)
        /\ TrieFrame

TrieMmap ==
  \E filename \in Sources :
    LET r == TrieSerializer_mmap(trie, filename)
    IN  /\ trie' = r.trie_
        /\ call' = Call("mmap", filename.id, r.err)
        /\ TrieFrame

TrieMap ==
  \E block \in Sources \cup {EmptyBlock} :
    LET r == TrieSerializer_map(trie, block,
                                IF block = EmptyBlock THEN 0 ELSE 1)
    IN  /\ trie' = r.trie_
        /\ call' = Call("map", block.id, r.err)
        /\ TrieFrame

TrieLoad ==
  \E filename \in Sources :
    LET r == TrieSerializer_load(trie, filename)
    IN  /\ trie' = r.trie_
        /\ call' = Call("load", filename.id, r.err)
        /\ TrieFrame

TrieReadFd ==
  \E fd \in Sources :
    LET r == TrieSerializer_read(trie, fd)
    IN  /\ trie' = r.trie_
        /\ call' = Call("read_fd", fd.id, r.err)
        /\ TrieFrame

TrieClear ==
  /\ trie' = Trie_clear(trie)
  /\ call' = Call("clear", 0, "none")
  /\ TrieFrame

TrieSwap ==
  /\ trie' = trie2
  /\ trie2' = trie
  /\ call' = Call("swap", 0, "none")
  /\ UNCHANGED <<cfgvars, vecvars, out, written, mem, rpos, rvecs, mpos,
                 mvecs>>

TrieNext ==
  \/ TrieBuild \/ TrieFread \/ TrieReadStream \/ TrieMmap \/ TrieMap
  \/ TrieLoad \/ TrieReadFd \/ TrieClear \/ TrieSwap

SpecTrie == TrieInit /\ [][TrieNext]_vars

(***************************************************************************)
(* Properties of the Trie.                                                 *)
(***************************************************************************)
ReplacingOps == {"build", "fread", "read", "mmap", "map", "load", "read_fd"}

\* C1: an operation that replaces the content of a Trie and fails leaves
\* trie_ holding the LoudsTrie it held before the call; when it succeeds
\* trie_ holds the complete new LoudsTrie.
C1_FailedReplaceKeepsTrie ==
  [][ call'.op \in ReplacingOps =>
        /\ call'.err # "none" => trie' = trie
        /\ call'.err = "none" =>
             /\ trie'.src \in {"build", "read", "map"}
             /\ trie'.from = call'.arg
        /\ trie2' = trie2
    ]_vars

C1_Witness ==
  /\ call.op = "load"
  /\ call.err = "runtime_error"
  /\ trie.src = "build"
  /\ trie2.src = "map"

====
